---- MODULE Spec2Model ----
(***************************************************************************)
(* Flat-tree surgery of rustree: leaf pruning (remove_node), dated SPR     *)
(* (spr) and topology-only SPR (FlatTree::spr_topology with detach and     *)
(* attach), on the index-based flat tree of src/src/node.rs; and the gene  *)
(* pipeline of src/src/bin/gene_transfer_script.rs: the contemporaneity    *)
(* index, the interval CDF, the transfer sampler and the application of    *)
(* the sampled transfers; and the conversions and queries of the library:  *)
(* Node::to_flat_tree, FlatTree::to_node, Node::depths_to_lengths,         *)
(* FlatTree::is_ancestor, find_closest_index and find_deepest_nodes.       *)
(***************************************************************************)
EXTENDS Integers, Sequences, FiniteSets, TLC

\* ---------------------------------------------------------------- bounds
MaxLeaves == 4      \* largest input tree has MaxLeaves leaves
MaxTime == 2        \* transfer times are drawn from 1..MaxTime
MaxSprs == 1        \* SPR calls (dated or topology-only) per run
MaxLen == 2         \* branch lengths of the gene pipeline's input trees
MaxTransfers == 2   \* transfers asked of one generate_transfers call
MaxDepth == 6       \* grid points of a subdivision lie in 0..MaxDepth
MaxFlat == 4        \* nodes of a recursive tree given to to_flat_tree
MaxSlots == 4       \* slots of a flat tree whose parent fields are arbitrary

\* Option<usize>::None
None == -1

MaxNodes == 2 * MaxLeaves - 1
Times == 1..MaxTime

VARIABLES left, right, parent, depth, root, op, pre, start, removed, nsprs,
          length, transfer_rates, tables, gene, pc

\* The gene pipeline's part of the state: the length field of the nodes, the
\* transfer rates, the sampler's tables, the last gene simulation and the
\* position of main.
geneVars == <<length, transfer_rates, tables, gene, pc>>

vars == <<left, right, parent, depth, root, op, pre, start, removed, nsprs,
          length, transfer_rates, tables, gene, pc>>

\* The FlatTree held by the program, as one value.
Tree == [left |-> left, right |-> right, parent |-> parent, depth |-> depth, root |-> root]

\* FlatTree::len, and the set of valid indices of the node vector.
NodesOf(T) == DOMAIN T.parent
len(T) == Cardinality(NodesOf(T))

\* ------------------------------------------------------------ flattening
\* Node::node_to_flat_internal: pre-order placement; the subtree of n nodes
\* rooted at index base; children are pushed after their parent, left first.
\* Depths are those of Node::assign_depths for unit branch lengths.
RECURSIVE node_to_flat_internal(_, _, _, _)
node_to_flat_internal(base, n, par, d) ==
  IF n = 1
  THEN { [i \in {base} |-> [left |-> None, right |-> None, parent |-> par, depth |-> d]] }
  ELSE UNION { { (base :> [left |-> base + 1, right |-> base + 1 + k,
                           parent |-> par, depth |-> d]) @@ L @@ R :
                   L \in node_to_flat_internal(base + 1, k, base, d + 1),
                   R \in node_to_flat_internal(base + 1 + k, n - 1 - k, base, d + 1) } :
               k \in { j \in 1..(n - 2) : j % 2 = 1 } }

\* Node::to_flat_tree for every binary tree of n nodes: root at index 0.
to_flat_tree(n) ==
  { [left   |-> [i \in 0..(n - 1) |-> f[i].left],
     right  |-> [i \in 0..(n - 1) |-> f[i].right],
     parent |-> [i \in 0..(n - 1) |-> f[i].parent],
     depth  |-> [i \in 0..(n - 1) |-> f[i].depth],
     root   |-> 0] : f \in node_to_flat_internal(0, n, None, 0) }

FreshTrees == UNION { to_flat_tree(n) : n \in { m \in 1..MaxNodes : m % 2 = 1 } }

\* --------------------------------------------------------- call outcomes
Outcome(T, res) == [tree |-> T, result |-> res]

\* ------------------------------------------------- sampling::remove_node
\* Variant: the sister is written to the slot that did not hold the parent.
remove_node_splice_other_slot(T, grandparent_index_opt, parent_index, sister_index) ==
  IF grandparent_index_opt # None
  THEN IF T.left[grandparent_index_opt] = parent_index
       THEN [T EXCEPT !.right[grandparent_index_opt] = sister_index]
       ELSE [T EXCEPT !.left[grandparent_index_opt] = sister_index]
  ELSE [T EXCEPT !.parent[sister_index] = None, !.root = sister_index]

\* Variant: the root is not moved to the sister when the parent was the root.
remove_node_splice_keeps_root(T, grandparent_index_opt, parent_index, sister_index) ==
  IF grandparent_index_opt # None
  THEN IF T.left[grandparent_index_opt] = parent_index
       THEN [T EXCEPT !.left[grandparent_index_opt] = sister_index]
       ELSE [T EXCEPT !.right[grandparent_index_opt] = sister_index]
  ELSE [T EXCEPT !.parent[sister_index] = None]

\* The sister takes the parent's place: under the grandparent, or as the root.
remove_node_splice(T, grandparent_index_opt, parent_index, sister_index) ==
  IF grandparent_index_opt # None
  THEN IF T.left[grandparent_index_opt] = parent_index
       THEN [T EXCEPT !.left[grandparent_index_opt] = sister_index]
       ELSE [T EXCEPT !.right[grandparent_index_opt] = sister_index]
  ELSE [T EXCEPT !.parent[sister_index] = None, !.root = sister_index]

remove_node(T, index) ==
  IF index \notin NodesOf(T) \/ T.parent[index] = None THEN Outcome(T, "panic")
  ELSE
    LET parent_index == T.parent[index] IN
    IF T.left[parent_index] = None
       \/ (T.left[parent_index] = index /\ T.right[parent_index] = None)
    THEN Outcome(T, "panic")
    ELSE
      LET sister_index == IF T.left[parent_index] = index
                          THEN T.right[parent_index] ELSE T.left[parent_index]
          grandparent_index_opt == T.parent[parent_index]
          T1 == [T EXCEPT !.parent[index] = None]
          T2 == [T1 EXCEPT !.parent[sister_index] = grandparent_index_opt]
      IN Outcome(remove_node_splice(T2, grandparent_index_opt, parent_index, sister_index),
                 "done")

\* ------------------------------------- surgery::spr (= sampling::spr)
\* Variant: the depth of PR is not set to the transfer time.
spr_move_recipient_parent_no_depth(T, recipient_parent, donor_parent, donor, recipient, time) ==
  LET T1 == [T EXCEPT !.parent[recipient_parent] = donor_parent]
  IN IF T1.left[recipient_parent] = recipient
     THEN [T1 EXCEPT !.left[recipient_parent] = donor]
     ELSE [T1 EXCEPT !.right[recipient_parent] = donor]

\* Variant: the transfer time is written to the donor's depth as well.
spr_move_recipient_parent_dates_donor(T, recipient_parent, donor_parent, donor, recipient, time) ==
  LET T1 == [T EXCEPT !.parent[recipient_parent] = donor_parent]
      T2 == IF T1.left[recipient_parent] = recipient
            THEN [T1 EXCEPT !.left[recipient_parent] = donor]
            ELSE [T1 EXCEPT !.right[recipient_parent] = donor]
  IN [T2 EXCEPT !.depth[recipient_parent] = time, !.depth[donor] = time]

\* Step 1 of the move: PR gets PD as parent, the donor in the slot that held
\* the recipient, and the transfer time as depth.
spr_move_recipient_parent(T, recipient_parent, donor_parent, donor, recipient, time) ==
  LET T1 == [T EXCEPT !.parent[recipient_parent] = donor_parent]
      T2 == IF T1.left[recipient_parent] = recipient
            THEN [T1 EXCEPT !.left[recipient_parent] = donor]
            ELSE [T1 EXCEPT !.right[recipient_parent] = donor]
  IN [T2 EXCEPT !.depth[recipient_parent] = time]

\* Variant: the sister's parent pointer is left on PR.
spr_promote_sibling_keeps_parent(T, recipient_grandparent_opt, recipient_parent, recipient_sibling) ==
  IF recipient_grandparent_opt # None
  THEN IF T.left[recipient_grandparent_opt] = recipient_parent
       THEN [T EXCEPT !.left[recipient_grandparent_opt] = recipient_sibling]
       ELSE [T EXCEPT !.right[recipient_grandparent_opt] = recipient_sibling]
  ELSE [T EXCEPT !.root = recipient_sibling]

\* The recipient's sister takes PR's place under PPR, or becomes the root.
spr_promote_sibling(T, recipient_grandparent_opt, recipient_parent, recipient_sibling) ==
  IF recipient_grandparent_opt # None
  THEN LET G == IF T.left[recipient_grandparent_opt] = recipient_parent
                THEN [T EXCEPT !.left[recipient_grandparent_opt] = recipient_sibling]
                ELSE [T EXCEPT !.right[recipient_grandparent_opt] = recipient_sibling]
       IN [G EXCEPT !.parent[recipient_sibling] = recipient_grandparent_opt]
  ELSE [T EXCEPT !.parent[recipient_sibling] = None, !.root = recipient_sibling]

\* Variant: the donor's parent pointer is left on PD.
spr_relink_donor_keeps_parent(T, donor_parent, donor, recipient_parent) ==
  IF T.left[donor_parent] = donor
  THEN [T EXCEPT !.left[donor_parent] = recipient_parent]
  ELSE [T EXCEPT !.right[donor_parent] = recipient_parent]

\* PD gets PR in the slot that held the donor; the donor gets PR as parent.
spr_relink_donor(T, donor_parent, donor, recipient_parent) ==
  LET T5 == IF T.left[donor_parent] = donor
            THEN [T EXCEPT !.left[donor_parent] = recipient_parent]
            ELSE [T EXCEPT !.right[donor_parent] = recipient_parent]
  IN [T5 EXCEPT !.parent[donor] = recipient_parent]

spr(T, donor, recipient, time) ==
  IF donor \notin NodesOf(T) \/ T.parent[donor] = None THEN Outcome(T, "panic")
  ELSE IF recipient \notin NodesOf(T) \/ T.parent[recipient] = None THEN Outcome(T, "panic")
  ELSE
    LET donor_parent == T.parent[donor]
        recipient_parent == T.parent[recipient]
    IN
    IF T.left[recipient_parent] = None
       \/ (T.left[recipient_parent] = recipient /\ T.right[recipient_parent] = None)
    THEN Outcome(T, "panic")
    ELSE
      LET recipient_sibling == IF T.left[recipient_parent] = recipient
                               THEN T.right[recipient_parent]
                               ELSE T.left[recipient_parent]
          recipient_grandparent_opt == T.parent[recipient_parent]
      IN
      IF donor_parent = recipient_parent
      THEN Outcome([T EXCEPT !.depth[recipient_parent] = time], "done")
      ELSE
        LET T3 == spr_move_recipient_parent(T, recipient_parent, donor_parent,
                                            donor, recipient, time)
            T4 == spr_promote_sibling(T3, recipient_grandparent_opt,
                                      recipient_parent, recipient_sibling)
        IN
        \* the unwrap() of a child slot panics on None, mid-way through the move
        IF recipient_grandparent_opt # None /\ T3.left[recipient_grandparent_opt] = None
        THEN Outcome(T3, "panic")
        ELSE IF T4.left[donor_parent] = None THEN Outcome(T4, "panic")
        ELSE Outcome(spr_relink_donor(T4, donor_parent, donor, recipient_parent), "done")

\* ------------------------------------------------ FlatTree::is_ancestor
\* The while-let loop from current_idx on; "loops" when the walk revisits
\* nodes for ever (more iterations than there are nodes).
RECURSIVE is_ancestor_walk(_, _, _, _, _)
is_ancestor_walk(T, potential_ancestor_idx, node_idx, current_idx_opt, fuel) ==
  IF current_idx_opt = None THEN "false"
  ELSE IF current_idx_opt = potential_ancestor_idx THEN "true"
  ELSE IF current_idx_opt = T.root /\ T.parent[T.root] # None THEN "false"
  ELSE IF current_idx_opt = node_idx THEN "false"
  ELSE IF fuel = 0 THEN "loops"
  ELSE is_ancestor_walk(T, potential_ancestor_idx, node_idx,
                        T.parent[current_idx_opt], fuel - 1)

\* Variant: only the direct parent is looked at, the walk is not continued.
is_ancestor_parent_only(T, potential_ancestor_idx, node_idx) ==
  IF potential_ancestor_idx \notin NodesOf(T) \/ node_idx \notin NodesOf(T) THEN "false"
  ELSE IF T.parent[node_idx] = potential_ancestor_idx THEN "true"
  ELSE "false"

is_ancestor(T, potential_ancestor_idx, node_idx) ==
  IF potential_ancestor_idx \notin NodesOf(T) \/ node_idx \notin NodesOf(T) THEN "false"
  ELSE IF potential_ancestor_idx = node_idx THEN "false"
  ELSE is_ancestor_walk(T, potential_ancestor_idx, node_idx, T.parent[node_idx], len(T))

\* The SprError variants.
SprErrors == {"NodeNotFound", "InvalidDonor", "InvalidRecipient", "InvalidMove", "TreeError"}

\* ----------------------------------------------------- FlatTree::detach
\* Variant: the sibling's parent pointer is left on P.
detach_promote_sibling_keeps_parent(T, grandparent_idx_opt, parent_idx, sibling_idx) ==
  IF grandparent_idx_opt # None
  THEN IF T.left[grandparent_idx_opt] = parent_idx
       THEN [T EXCEPT !.left[grandparent_idx_opt] = sibling_idx]
       ELSE [T EXCEPT !.right[grandparent_idx_opt] = sibling_idx]
  ELSE [T EXCEPT !.root = sibling_idx]

\* Step 4: promote the sibling S to P's place under G, or to the root.
detach_promote_sibling(T, grandparent_idx_opt, parent_idx, sibling_idx) ==
  IF grandparent_idx_opt # None
  THEN LET G == IF T.left[grandparent_idx_opt] = parent_idx
                THEN [T EXCEPT !.left[grandparent_idx_opt] = sibling_idx]
                ELSE [T EXCEPT !.right[grandparent_idx_opt] = sibling_idx]
       IN [G EXCEPT !.parent[sibling_idx] = grandparent_idx_opt]
  ELSE [T EXCEPT !.root = sibling_idx, !.parent[sibling_idx] = None]

\* Step 5: isolate P -> N; P loses its parent and its pointer to S.
detach_isolate(T, parent_idx, n_was_left) ==
  LET T2 == [T EXCEPT !.parent[parent_idx] = None]
  IN IF n_was_left
     THEN [T2 EXCEPT !.right[parent_idx] = None]
     ELSE [T2 EXCEPT !.left[parent_idx] = None]

\* Outcome "Ok" carries the index of P, the root of the detached subtree.
detach(T, node_to_detach_idx) ==
  IF T.parent[node_to_detach_idx] = None
  THEN [tree |-> T, result |-> "TreeError", P |-> None]
  ELSE
    LET parent_idx == T.parent[node_to_detach_idx]
        l == T.left[parent_idx]
        r == T.right[parent_idx]
    IN
    IF ~(l # None /\ r # None /\ (l = node_to_detach_idx \/ r = node_to_detach_idx))
    THEN [tree |-> T, result |-> "TreeError", P |-> None]
    ELSE
      LET n_was_left == (l = node_to_detach_idx)
          sibling_idx == IF n_was_left THEN r ELSE l
          grandparent_idx_opt == T.parent[parent_idx]
      IN
      IF grandparent_idx_opt # None
         /\ T.left[grandparent_idx_opt] # parent_idx
         /\ T.right[grandparent_idx_opt] # parent_idx
      THEN [tree |-> T, result |-> "TreeError", P |-> None]
      ELSE
        LET T1 == detach_promote_sibling(T, grandparent_idx_opt, parent_idx, sibling_idx)
        IN [tree |-> detach_isolate(T1, parent_idx, n_was_left),
            result |-> "Ok", P |-> parent_idx]

\* ----------------------------------------------------- FlatTree::attach
\* Variant: P is written to the slot of RP that did not hold R.
attach_link_above_other_slot(T, recipient_parent_idx_opt, detached_root_idx, target_node_idx) ==
  IF recipient_parent_idx_opt # None
  THEN LET G == IF T.left[recipient_parent_idx_opt] = target_node_idx
                THEN [T EXCEPT !.right[recipient_parent_idx_opt] = detached_root_idx]
                ELSE [T EXCEPT !.left[recipient_parent_idx_opt] = detached_root_idx]
       IN [G EXCEPT !.parent[detached_root_idx] = recipient_parent_idx_opt]
  ELSE [T EXCEPT !.root = detached_root_idx, !.parent[detached_root_idx] = None]

\* Variant: the root is not moved to P when R was the root.
attach_link_above_keeps_root(T, recipient_parent_idx_opt, detached_root_idx, target_node_idx) ==
  IF recipient_parent_idx_opt # None
  THEN LET G == IF T.left[recipient_parent_idx_opt] = target_node_idx
                THEN [T EXCEPT !.left[recipient_parent_idx_opt] = detached_root_idx]
                ELSE [T EXCEPT !.right[recipient_parent_idx_opt] = detached_root_idx]
       IN [G EXCEPT !.parent[detached_root_idx] = recipient_parent_idx_opt]
  ELSE [T EXCEPT !.parent[detached_root_idx] = None]

\* Step 3: P takes R's place under R's parent RP, or becomes the root.
attach_link_above(T, recipient_parent_idx_opt, detached_root_idx, target_node_idx) ==
  IF recipient_parent_idx_opt # None
  THEN LET G == IF T.left[recipient_parent_idx_opt] = target_node_idx
                THEN [T EXCEPT !.left[recipient_parent_idx_opt] = detached_root_idx]
                ELSE [T EXCEPT !.right[recipient_parent_idx_opt] = detached_root_idx]
       IN [G EXCEPT !.parent[detached_root_idx] = recipient_parent_idx_opt]
  ELSE [T EXCEPT !.root = detached_root_idx, !.parent[detached_root_idx] = None]

\* Steps 4 and 5: R goes into the empty slot of P and gets P as parent.
attach_link_below(T, detached_root_idx, target_node_idx, original_donor_n_idx) ==
  LET pl == T.left[detached_root_idx]
      pr == T.right[detached_root_idx]
  IN
  IF pl # None /\ pr = None /\ pl = original_donor_n_idx
  THEN Outcome([T EXCEPT !.right[detached_root_idx] = target_node_idx,
                         !.parent[target_node_idx] = detached_root_idx], "Ok")
  ELSE IF pl = None /\ pr # None /\ pr = original_donor_n_idx
  THEN Outcome([T EXCEPT !.left[detached_root_idx] = target_node_idx,
                         !.parent[target_node_idx] = detached_root_idx], "Ok")
  ELSE Outcome(T, "TreeError")

attach(T, detached_root_idx, target_node_idx) ==
  IF detached_root_idx \notin NodesOf(T) THEN Outcome(T, "InvalidDonor")
  ELSE IF T.parent[detached_root_idx] # None THEN Outcome(T, "TreeError")
  ELSE IF (T.left[detached_root_idx] = None) = (T.right[detached_root_idx] = None)
  THEN Outcome(T, "TreeError")
  ELSE
    LET original_donor_n_idx == IF T.left[detached_root_idx] # None
                                THEN T.left[detached_root_idx]
                                ELSE T.right[detached_root_idx]
    IN
    IF target_node_idx \notin NodesOf(T) THEN Outcome(T, "InvalidRecipient")
    ELSE
      LET recipient_parent_idx_opt == T.parent[target_node_idx] IN
      IF recipient_parent_idx_opt # None
         /\ T.left[recipient_parent_idx_opt] # target_node_idx
         /\ T.right[recipient_parent_idx_opt] # target_node_idx
      THEN Outcome(T, "TreeError")
      ELSE IF recipient_parent_idx_opt = None /\ target_node_idx # T.root
      THEN Outcome(T, "TreeError")
      ELSE attach_link_below(
             attach_link_above(T, recipient_parent_idx_opt, detached_root_idx, target_node_idx),
             detached_root_idx, target_node_idx, original_donor_n_idx)

\* ----------------------------------------------- FlatTree::spr_topology
spr_topology(T, moving_node_index, recipient_idx) ==
  IF moving_node_index \notin NodesOf(T) THEN Outcome(T, "InvalidDonor")
  ELSE IF recipient_idx \notin NodesOf(T) THEN Outcome(T, "InvalidRecipient")
  ELSE IF moving_node_index = T.root THEN Outcome(T, "InvalidDonor")
  ELSE IF moving_node_index = recipient_idx THEN Outcome(T, "InvalidMove")
  ELSE IF T.parent[moving_node_index] = None THEN Outcome(T, "TreeError")
  ELSE
    LET moving_node_parent_index == T.parent[moving_node_index] IN
    IF moving_node_parent_index = recipient_idx THEN Outcome(T, "InvalidMove")
    ELSE IF is_ancestor(T, moving_node_index, recipient_idx) = "loops" THEN Outcome(T, "hang")
    ELSE IF is_ancestor(T, moving_node_index, recipient_idx) = "true" THEN Outcome(T, "InvalidMove")
    ELSE
      LET sibling_is_recipient ==
            \/ (T.left[moving_node_parent_index] = moving_node_index
                /\ T.right[moving_node_parent_index] = recipient_idx)
            \/ (T.right[moving_node_parent_index] = moving_node_index
                /\ T.left[moving_node_parent_index] = recipient_idx)
      IN
      IF sibling_is_recipient THEN Outcome(T, "Ok")
      ELSE
        LET D == detach(T, moving_node_index) IN
        IF D.result # "Ok" THEN Outcome(D.tree, D.result)
        ELSE attach(D.tree, D.P, recipient_idx)

\* =========================================================== gene pipeline
\* Tables and simulation record before main has computed them.
NoTables == [set |-> FALSE]
NoGene == [result |-> "none"]

\* A Vec is a function on 0..n-1.
VecLen(v) == Cardinality(DOMAIN v)

RECURSIVE SortedSeq(_)
SortedSeq(S) ==
  IF S = {} THEN << >>
  ELSE LET m == CHOOSE x \in S : \A y \in S : x <= y
       IN <<m>> \o SortedSeq(S \ {m})

VecOfSeq(q) == [i \in 0..(Len(q) - 1) |-> q[i + 1]]

Abs(x) == IF x < 0 THEN -x ELSE x

\* Node::zero_root_length and Node::assign_depths, on the flattened tree: the
\* root has depth 0, a child the depth of its parent plus its own length.
RECURSIVE assign_depths(_, _, _, _)
assign_depths(T, L, i, current_depth) ==
  IF T.left[i] = None THEN (i :> current_depth)
  ELSE (i :> current_depth)
       @@ assign_depths(T, L, T.left[i], current_depth + L[T.left[i]])
       @@ assign_depths(T, L, T.right[i], current_depth + L[T.right[i]])

\* ------------------------------------------------ metric_functions.rs
\* FlatTree::make_subdivision: the depths of the nodes, sorted, deduplicated.
make_subdivision(T) == VecOfSeq(SortedSeq({ T.depth[i] : i \in NodesOf(T) }))

\* FlatTree::make_intervals: 0, then the differences of consecutive depths.
make_intervals(T) ==
  LET depths == make_subdivision(T)
  IN [i \in 0..(VecLen(depths) - 1) |-> IF i = 0 THEN 0 ELSE depths[i] - depths[i - 1]]

\* FlatTree::find_closest_index: binary search in a strictly increasing
\* vector; on a miss, the nearer neighbour of the insertion point, the upper
\* one on a tie.
find_closest_index(depths, value) ==
  LET hits == { i \in DOMAIN depths : depths[i] = value }
      idx == Cardinality({ i \in DOMAIN depths : depths[i] < value })
  IN IF hits # {} THEN CHOOSE i \in hits : TRUE
     ELSE IF idx = 0 THEN 0
     ELSE IF idx = VecLen(depths) THEN VecLen(depths) - 1
     ELSE IF Abs(value - depths[idx - 1]) < Abs(value - depths[idx]) THEN idx - 1
     ELSE idx

\* Variant: the interval that ends at the node's start is counted too.
find_contemporaneity_from_start(T, L, depths) ==
  [j \in DOMAIN depths |->
     VecOfSeq(SortedSeq({ i \in NodesOf(T) :
       LET start_index == find_closest_index(depths, T.depth[i] - L[i])
           end_index == find_closest_index(depths, T.depth[i])
       IN start_index <= j /\ j <= end_index }))]

\* FlatTree::find_contemporaneity: node i, visited in index order, is pushed
\* to the entries start_index + 1 ..= end_index.
find_contemporaneity(T, L, depths) ==
  [j \in DOMAIN depths |->
     VecOfSeq(SortedSeq({ i \in NodesOf(T) :
       LET start_index == find_closest_index(depths, T.depth[i] - L[i])
           end_index == find_closest_index(depths, T.depth[i])
       IN start_index + 1 <= j /\ j <= end_index }))]

\* ------------------------------------------------ gene_transfer_script.rs
RECURSIVE SumRates(_, _, _)
SumRates(species_indices, rates, n) ==
  IF n = 0 THEN 0
  ELSE SumRates(species_indices, rates, n - 1)
       + (IF species_indices[n - 1] \in DOMAIN rates THEN rates[species_indices[n - 1]] ELSE 0)

compute_interval_intensity(contemporaneity, rates) ==
  [j \in DOMAIN contemporaneity |->
     SumRates(contemporaneity[j], rates, VecLen(contemporaneity[j]))]

\* An f64 that is a ratio of integers: <<numerator, denominator>>; a zero
\* denominator is the NaN of 0.0 / 0.0.
Frac(n, d) == <<n, d>>
IsNaN(x) == x[2] = 0
FracEq(x, y) == ~IsNaN(x) /\ ~IsNaN(y) /\ x[1] * y[2] = y[1] * x[2]
FracLess(x, y) == ~IsNaN(x) /\ ~IsNaN(y) /\ x[1] * y[2] < y[1] * x[2]
FracLeq(x, y) == FracEq(x, y) \/ FracLess(x, y)
FracSub(x, y) ==
  IF y[2] # 0 /\ x[2] % y[2] = 0 THEN Frac(x[1] - y[1] * (x[2] \div y[2]), x[2])
  ELSE Frac(x[1] * y[2] - y[1] * x[2], x[2] * y[2])

\* The running sums of intervals[i] * transfer_intensity[i].
RECURSIVE make_cdf_sums(_, _, _)
make_cdf_sums(intervals, transfer_intensity, i) ==
  IF i = 0 THEN intervals[0] * transfer_intensity[0]
  ELSE make_cdf_sums(intervals, transfer_intensity, i - 1)
       + intervals[i] * transfer_intensity[i]

\* Variant: the sums are not divided by their total.
make_cdf_not_normalized(intervals, transfer_intensity) ==
  [i \in DOMAIN intervals |-> Frac(make_cdf_sums(intervals, transfer_intensity, i), 1)]

\* make_cdf: the running sums, each divided by the last one.
make_cdf(intervals, transfer_intensity) ==
  LET n == VecLen(intervals)
      total_value == make_cdf_sums(intervals, transfer_intensity, n - 1)
  IN [i \in DOMAIN intervals |->
        Frac(make_cdf_sums(intervals, transfer_intensity, i), total_value)]

\* The outcome of the binary search of choose_from_cdf for r: the comparison
\* of a probe with r, where a NaN probe counts as Less.
cdf_cmp(probe, r) ==
  IF FracEq(probe, r) THEN "Equal"
  ELSE IF FracLess(r, probe) THEN "Greater"
  ELSE "Less"

\* binary_search_by in a sorted vector: Ok(i) at an entry equal to r,
\* otherwise Err(i) at the insertion point; both give i.
choose_from_cdf_search(cdf, r) ==
  LET hits == { i \in DOMAIN cdf : cdf_cmp(cdf[i], r) = "Equal" }
  IN IF hits # {} THEN CHOOSE i \in hits : TRUE
     ELSE Cardinality({ i \in DOMAIN cdf : cdf_cmp(cdf[i], r) = "Less" })

\* choose_from_cdf with the uniform draw r of rng.gen_range(0.0..1.0): the
\* interval index and the time interpolated inside it. The division of the
\* interpolation is exact for the values of r drawn here.
choose_from_cdf(cdf, depths, r) ==
  LET i == choose_from_cdf_search(cdf, r) IN
  IF i = VecLen(cdf) THEN [result |-> "panic", depth |-> None, index |-> i]
  ELSE IF i = 0 THEN [result |-> "panic", depth |-> None, index |-> i]
  ELSE
    LET a == FracSub(r, cdf[i - 1])
        b == FracSub(cdf[i], cdf[i - 1])
    IN IF a[2] * b[1] = 0 THEN [result |-> "nan", depth |-> None, index |-> i]
       ELSE [result |-> "ok",
             depth |-> ((a[1] * b[2] * (depths[i] - depths[i - 1])) \div (a[2] * b[1]))
                       + depths[i - 1],
             index |-> i]

\* Variant: the receiver index is not shifted past the donor's.
random_pair_with_weights_no_shift(contemporaneous_species, donor_idx, rand_idx) ==
  IF VecLen(contemporaneous_species) < 2 THEN [some |-> FALSE]
  ELSE [some |-> TRUE,
        donor |-> contemporaneous_species[donor_idx],
        receiver |-> contemporaneous_species[rand_idx]]

\* random_pair_with_weights with donor_idx = rng.sample(weighted) and
\* rand_idx = rng.gen_range(0..(n - 1)).
random_pair_with_weights(contemporaneous_species, donor_idx, rand_idx) ==
  IF VecLen(contemporaneous_species) < 2 THEN [some |-> FALSE]
  ELSE
    LET receiver_idx == IF rand_idx >= donor_idx THEN rand_idx + 1 ELSE rand_idx
    IN [some |-> TRUE,
        donor |-> contemporaneous_species[donor_idx],
        receiver |-> contemporaneous_species[receiver_idx]]

\* main, lines 287-328: the tables computed once from the flattened tree.
\* weighted_indices[j] is Some(weights) where at least two species are
\* contemporaneous, and None elsewhere.
build_tables(T, L, rates) ==
  LET depths == make_subdivision(T)
      intervals == make_intervals(T)
      contemporaneity == find_contemporaneity(T, L, depths)
      intensities == compute_interval_intensity(contemporaneity, rates)
  IN [set |-> TRUE,
      depths |-> depths,
      intervals |-> intervals,
      contemporaneity |-> contemporaneity,
      intensities |-> intensities,
      cdf |-> make_cdf(intervals, intensities),
      weighted_indices |->
        [j \in DOMAIN contemporaneity |->
           IF VecLen(contemporaneity[j]) >= 2
           THEN [some |-> TRUE,
                 weights |-> [k \in DOMAIN contemporaneity[j] |->
                                rates[contemporaneity[j][k]]]]
           ELSE [some |-> FALSE]]]

\* One pass of the loop of generate_transfers, the random numbers of the pass
\* being d.r, d.donor_idx and d.rand_idx (weighted sampling).
draw_transfer(tb, d) ==
  LET c == choose_from_cdf(tb.cdf, tb.depths, d.r) IN
  IF c.result # "ok" THEN [result |-> "panic", index |-> c.index]
  ELSE IF ~tb.weighted_indices[c.index].some THEN [result |-> "panic", index |-> c.index]
  ELSE
    LET pair == random_pair_with_weights(tb.contemporaneity[c.index], d.donor_idx, d.rand_idx)
    IN IF pair.some
       THEN [result |-> "ok", index |-> c.index,
             transfer |-> <<pair.donor, pair.receiver, c.depth>>]
       ELSE [result |-> "none", index |-> c.index]

\* The transfers pushed by the first k passes.
RECURSIVE generate_transfers_loop(_, _, _)
generate_transfers_loop(tb, stream, k) ==
  IF k = 0 THEN [result |-> "ok", transfers |-> << >>]
  ELSE
    LET before == generate_transfers_loop(tb, stream, k - 1) IN
    IF before.result = "panic" THEN before
    ELSE
      LET d == draw_transfer(tb, stream[k]) IN
      IF d.result = "panic" THEN [result |-> "panic", transfers |-> before.transfers]
      ELSE IF d.result = "none" THEN before
      ELSE [result |-> "ok", transfers |-> Append(before.transfers, d.transfer)]

\* transfers.sort_by(time): a stable sort.
RECURSIVE sort_by_time(_)
sort_by_time(q) ==
  IF q = << >> THEN << >>
  ELSE
    LET x == q[Len(q)]
        sorted == sort_by_time(SubSeq(q, 1, Len(q) - 1))
        k == Cardinality({ i \in 1..Len(sorted) : sorted[i][3] <= x[3] })
    IN SubSeq(sorted, 1, k) \o <<x>> \o SubSeq(sorted, k + 1, Len(sorted))

\* Variant: the comparison of the sort is reversed, latest transfer first.
RECURSIVE sort_by_time_reversed(_)
sort_by_time_reversed(q) ==
  IF q = << >> THEN << >>
  ELSE
    LET x == q[Len(q)]
        sorted == sort_by_time_reversed(SubSeq(q, 1, Len(q) - 1))
        k == Cardinality({ i \in 1..Len(sorted) : sorted[i][3] >= x[3] })
    IN SubSeq(sorted, 1, k) \o <<x>> \o SubSeq(sorted, k + 1, Len(sorted))

\* The end of generate_transfers: the transfers drawn are sorted by time,
\* unless a pass panicked.
sorted_transfers(drawn) ==
  IF drawn.result = "panic" THEN drawn
  ELSE [result |-> "ok", transfers |-> sort_by_time(drawn.transfers)]

\* Variant: the comparison of the sort is reversed, latest transfer first.
generate_transfers_latest_first(n_transfers, tb, stream) ==
  LET drawn == generate_transfers_loop(tb, stream, n_transfers)
  IN IF drawn.result = "panic" THEN drawn
     ELSE [result |-> "ok", transfers |-> sort_by_time_reversed(drawn.transfers)]

\* Variant: the transfers are returned in the order they were drawn.
generate_transfers_unsorted(n_transfers, tb, stream) ==
  generate_transfers_loop(tb, stream, n_transfers)

\* generate_transfers: n_transfers passes, then the sort by time.
generate_transfers(n_transfers, tb, stream) ==
  sorted_transfers(generate_transfers_loop(tb, stream, n_transfers))

\* The loop of one_gene_sim_to_string over the transfers: the spr calls made
\* for the first k of them, each with the tree it was applied to. A panic of
\* spr ends the loop.
RECURSIVE apply_transfers(_, _, _)
apply_transfers(T, transfers, k) ==
  IF k = 0 THEN [tree |-> T, result |-> "done", applied |-> << >>]
  ELSE
    LET before == apply_transfers(T, transfers, k - 1) IN
    IF before.result = "panic" THEN before
    ELSE
      LET transfer == transfers[k]
          R == spr(before.tree, transfer[1], transfer[2], transfer[3])
      IN [tree |-> R.tree, result |-> R.result,
          applied |-> Append(before.applied,
                             [pre |-> before.tree, donor |-> transfer[1],
                              recipient |-> transfer[2], time |-> transfer[3],
                              result |-> R.result])]

\* one_gene_sim_to_string after generate_transfers returned G: the transfers
\* are written to the CSV file in the order returned and applied in that order.
write_and_apply(T, G) ==
  IF G.result = "panic"
  THEN [tree |-> T, result |-> "panic", generated |-> "panic",
        transfers |-> G.transfers, csv |-> << >>, applied |-> << >>]
  ELSE apply_transfers(T, G.transfers, Len(G.transfers))
         @@ [generated |-> "ok", transfers |-> G.transfers, csv |-> G.transfers]

\* one_gene_sim_to_string: the transfers are generated, written and applied.
one_gene_sim_to_string(T, n_transfers, tb, stream) ==
  write_and_apply(T, generate_transfers(n_transfers, tb, stream))

\* ------------------------------------------ FlatTreeIter, find_deepest_nodes
\* FlatTree::iter(PreOrder): the indices of the nodes in the order the
\* iterator returns them, from Start(index): the node, then Left, then Right.
RECURSIVE iter_pre_order(_, _, _)
iter_pre_order(T, index, fuel) ==
  IF index = None \/ fuel = 0 THEN << >>
  ELSE <<index>> \o iter_pre_order(T, T.left[index], fuel - 1)
                 \o iter_pre_order(T, T.right[index], fuel - 1)

\* The iterator never ends: the child references below index hold a cycle
\* (a chain of more nodes than the vector has).
RECURSIVE iter_loops(_, _, _)
iter_loops(T, index, fuel) ==
  /\ index # None
  /\ \/ fuel = 0
     \/ iter_loops(T, T.left[index], fuel - 1)
     \/ iter_loops(T, T.right[index], fuel - 1)

\* .enumerate().filter(leaf).map(|(i, node)| (i, depth)): i counts the nodes
\* the iterator has returned, from 0.
leaves_with_depths(T, order) ==
  LET at == { k \in 1..Len(order) :
                T.left[order[k]] = None /\ T.right[order[k]] = None }
      ks == SortedSeq(at)
  IN [j \in 1..Len(ks) |-> <<ks[j] - 1, T.depth[order[ks[j]]]>>]

\* sort_by(|a, b| b.1.partial_cmp(&a.1)): stable, deepest first.
RECURSIVE sort_by_depth_desc(_)
sort_by_depth_desc(q) ==
  IF q = << >> THEN << >>
  ELSE
    LET x == q[Len(q)]
        sorted == sort_by_depth_desc(SubSeq(q, 1, Len(q) - 1))
        k == Cardinality({ i \in 1..Len(sorted) : sorted[i][2] >= x[2] })
    IN SubSeq(sorted, 1, k) \o <<x>> \o SubSeq(sorted, k + 1, Len(sorted))

\* .iter().take(nb_leaves).map(|(i, _)| *i)
take_indices(q, nb_leaves) ==
  [j \in 1..(IF nb_leaves < Len(q) THEN nb_leaves ELSE Len(q)) |-> q[j][1]]

\* Variant: the leaves are returned in the order met, the sort is left out.
find_deepest_nodes_unsorted(T, nb_leaves) ==
  IF iter_loops(T, T.root, len(T)) THEN [result |-> "hang", indices |-> << >>]
  ELSE [result |-> "done",
        indices |-> take_indices(
                      leaves_with_depths(T, iter_pre_order(T, T.root, len(T))),
                      nb_leaves)]

\* find_deepest_nodes(flat_tree, nb_leaves), the same in extract_extant.rs
\* and sampling.rs.
find_deepest_nodes(T, nb_leaves) ==
  IF iter_loops(T, T.root, len(T)) THEN [result |-> "hang", indices |-> << >>]
  ELSE [result |-> "done",
        indices |-> take_indices(
                      sort_by_depth_desc(
                        leaves_with_depths(T, iter_pre_order(T, T.root, len(T)))),
                      nb_leaves)]

\* ------------------------------------- Node::to_flat_tree, FlatTree::to_node
\* A recursive Node is a record name, left_child, right_child, depth, length;
\* an Option<Box<Node>> is << >> for None and <<node>> for Some(node). A flat
\* tree with all the fields of FlatNode is the record of the vectors name,
\* left, right, parent, depth, length, and root.
EmptyFlat ==
  [name |-> << >>, left |-> << >>, right |-> << >>, parent |-> << >>,
   depth |-> << >>, length |-> << >>]

\* Variant: the node is pushed without its parent index.
push_flat_node_no_parent(flat_nodes, node, index, parent_index) ==
  [name   |-> (index :> node.name) @@ flat_nodes.name,
   left   |-> (index :> None) @@ flat_nodes.left,
   right  |-> (index :> None) @@ flat_nodes.right,
   parent |-> (index :> None) @@ flat_nodes.parent,
   depth  |-> (index :> node.depth) @@ flat_nodes.depth,
   length |-> (index :> node.length) @@ flat_nodes.length]

\* flat_nodes.push(FlatNode { name, None, None, parent_index, depth, length })
push_flat_node(flat_nodes, node, index, parent_index) ==
  [name   |-> (index :> node.name) @@ flat_nodes.name,
   left   |-> (index :> None) @@ flat_nodes.left,
   right  |-> (index :> None) @@ flat_nodes.right,
   parent |-> (index :> parent_index) @@ flat_nodes.parent,
   depth  |-> (index :> node.depth) @@ flat_nodes.depth,
   length |-> (index :> node.length) @@ flat_nodes.length]

\* Node::node_to_flat_internal(&self, flat_nodes, parent_index) for the node
\* held by the option opt: the vector after the call and the index returned
\* (None when opt is None and no call is made).
RECURSIVE node_to_flat(_, _, _)
node_to_flat(opt, flat_nodes, parent_index) ==
  IF opt = << >> THEN [nodes |-> flat_nodes, index |-> None]
  ELSE
    LET node == opt[1]
        index == Cardinality(DOMAIN flat_nodes.name)
        pushed == push_flat_node(flat_nodes, node, index, parent_index)
        L == node_to_flat(node.left_child, pushed, index)
        afterL == IF L.index = None THEN L.nodes
                  ELSE [L.nodes EXCEPT !.left[index] = L.index]
        R == node_to_flat(node.right_child, afterL, index)
        afterR == IF R.index = None THEN R.nodes
                  ELSE [R.nodes EXCEPT !.right[index] = R.index]
    IN [nodes |-> afterR, index |-> index]

\* Variant: the index of the last node pushed is returned as the root.
Node_to_flat_tree_root_last(node) ==
  LET F == node_to_flat(<<node>>, EmptyFlat, None)
  IN F.nodes @@ [root |-> Cardinality(DOMAIN F.nodes.name) - 1]

\* Node::to_flat_tree(&self)
Node_to_flat_tree(node) ==
  LET F == node_to_flat(<<node>>, EmptyFlat, None)
  IN F.nodes @@ [root |-> F.index]

\* FlatTree::flat_to_node_internal(index), as an option: << >> when the
\* recursion is deeper than the vector is long (a cycle of child references,
\* on which the code recurses until the stack overflows).
RECURSIVE flat_to_node_internal(_, _, _)
flat_to_node_internal(F, index, fuel) ==
  IF fuel = 0 THEN << >>
  ELSE
    << [name |-> F.name[index],
        left_child |-> IF F.left[index] = None THEN << >>
                       ELSE flat_to_node_internal(F, F.left[index], fuel - 1),
        right_child |-> IF F.right[index] = None THEN << >>
                        ELSE flat_to_node_internal(F, F.right[index], fuel - 1),
        depth |-> F.depth[index],
        length |-> F.length[index]] >>

\* FlatTree::to_node(&self)
to_node(F) ==
  IF iter_loops(F, F.root, len(F)) THEN [result |-> "overflow"]
  ELSE [result |-> "done", node |-> flat_to_node_internal(F, F.root, len(F))[1]]

\* The flat tree T with all the fields of FlatNode: the name of a node is the
\* index it was flattened at, its length is L; no operation writes either.
full_tree(T, L) == T @@ [name |-> [i \in NodesOf(T) |-> i], length |-> L]

\* Node::depths_to_lengths(parent_depth) on the node held by opt.
RECURSIVE depths_to_lengths(_, _)
depths_to_lengths(opt, parent_depth) ==
  IF opt = << >> THEN << >>
  ELSE << [name |-> opt[1].name,
           left_child |-> depths_to_lengths(opt[1].left_child, opt[1].depth),
           right_child |-> depths_to_lengths(opt[1].right_child, opt[1].depth),
           depth |-> opt[1].depth,
           length |-> opt[1].depth - parent_depth] >>

\* The end of one_gene_sim_to_string: to_node, then depths_to_lengths from
\* the root's own depth.
with_lengths(N) ==
  IF N.result # "done" THEN N
  ELSE [result |-> "done", node |-> depths_to_lengths(<<N.node>>, N.node.depth)[1]]

reconstructed_tree(T, L) == with_lengths(to_node(full_tree(T, L)))

\* ------------------------------------------------------------- the calls
\* The record of the last call: its name, arguments and outcome.
Call(name, a, b, t, res) == [name |-> name, a |-> a, b |-> b, time |-> t, result |-> res]

\* A panic or a hang ends the process: no further call is made.
Running == op.result \notin {"panic", "hang"}

Install(T) ==
  /\ left' = T.left
  /\ right' = T.right
  /\ parent' = T.parent
  /\ depth' = T.depth
  /\ root' = T.root

\* The state of a run that starts on the flat tree T with unit branch
\* lengths and no call made yet.
Install0(T) ==
  /\ left = T.left
  /\ right = T.right
  /\ parent = T.parent
  /\ depth = T.depth
  /\ root = T.root
  /\ pre = T
  /\ start = T
  /\ op = Call("init", None, None, 0, "done")
  /\ removed = {}
  /\ nsprs = 0
  /\ length = [i \in NodesOf(T) |-> IF i = T.root THEN 0 ELSE 1]
  /\ transfer_rates = [i \in NodesOf(T) |-> 1]

Init ==
  /\ \E T \in FreshTrees :
       /\ left = T.left
       /\ right = T.right
       /\ parent = T.parent
       /\ depth = T.depth
       /\ root = T.root
       /\ pre = T
       /\ start = T
  /\ op = Call("init", None, None, 0, "done")
  /\ removed = {}
  /\ nsprs = 0
  /\ length = [i \in NodesOf(Tree) |-> IF i = root THEN 0 ELSE 1]
  /\ transfer_rates = [i \in NodesOf(Tree) |-> 1]
  /\ tables = NoTables
  /\ gene = NoGene
  /\ pc = "surgery"

\* remove_node(flat_tree, index), as the extant pipeline calls it leaf by leaf;
\* that pipeline makes no SPR call.
RemoveNode(index) ==
  /\ Running
  /\ nsprs = 0
  /\ LET R == remove_node(Tree, index) IN
       /\ Install(R.tree)
       /\ op' = Call("remove_node", index, None, 0, R.result)
       /\ removed' = IF R.result = "done" THEN removed \cup {index} ELSE removed
  /\ pre' = Tree
  /\ UNCHANGED <<start, nsprs>>
  /\ UNCHANGED geneVars

\* spr(flat_tree, donor, recipient, time) on the tree as it stands.
CallSpr(donor, recipient, time) ==
  /\ Running
  /\ nsprs < MaxSprs
  /\ LET R == spr(Tree, donor, recipient, time) IN
       /\ Install(R.tree)
       /\ op' = Call("spr", donor, recipient, time, R.result)
  /\ pre' = Tree
  /\ nsprs' = nsprs + 1
  /\ UNCHANGED <<start, removed>>
  /\ UNCHANGED geneVars

\* flat_tree.spr_topology(moving_node_index, recipient_idx) on the tree as it
\* stands.
CallSprTopology(moving_node_index, recipient_idx) ==
  /\ Running
  /\ nsprs < MaxSprs
  /\ LET R == spr_topology(Tree, moving_node_index, recipient_idx) IN
       /\ Install(R.tree)
       /\ op' = Call("spr_topology", moving_node_index, recipient_idx, 0, R.result)
  /\ pre' = Tree
  /\ nsprs' = nsprs + 1
  /\ UNCHANGED <<start, removed>>
  /\ UNCHANGED geneVars

\* spr(flat_tree, donor, recipient, time), one transfer of the gene pipeline,
\* which works on the flattened species tree and prunes nothing.
Spr(donor, recipient, time) ==
  /\ removed = {}
  /\ CallSpr(donor, recipient, time)

\* flat_tree.spr_topology(moving_node_index, recipient_idx), on an unpruned tree.
SprTopology(moving_node_index, recipient_idx) ==
  /\ removed = {}
  /\ CallSprTopology(moving_node_index, recipient_idx)

\* Arguments range over every index of the node vector and one past its end.
Args == 0..len(Tree)

Next ==
  \/ \E index \in Args : RemoveNode(index)
  \/ \E donor \in Args, recipient \in Args, time \in Times : Spr(donor, recipient, time)
  \/ \E moving_node_index \in Args, recipient_idx \in Args :
       SprTopology(moving_node_index, recipient_idx)

Spec == Init /\ [][Next]_vars

\* Surgery by a caller of the library: leaves are removed, then SPR calls are
\* made on the tree that is left, dead slots included.
SurgeryNext ==
  \/ \E index \in Args : RemoveNode(index)
  \/ \E donor \in Args, recipient \in Args, time \in Times : CallSpr(donor, recipient, time)
  \/ \E moving_node_index \in Args, recipient_idx \in Args :
       CallSprTopology(moving_node_index, recipient_idx)

SurgerySpec == Init /\ [][SurgeryNext]_vars

\* ------------------------------------------------- the gene pipeline's run
\* Branch lengths of the input trees: even, so that the middle of every
\* interval of the subdivision is a whole number.
Lengths == { 2 * k : k \in 1..MaxLen }

\* The transfer rates: 1.0 for every node without a rate file; with a rate
\* file, the rate of its rows for the nodes it names.
RateTables(T) ==
  { [i \in NodesOf(T) |-> 1] }
    \cup { [i \in NodesOf(T) |-> IF i % 2 = 1 THEN 2 ELSE 1] }

\* Values of the uniform draw r in [0, 1): every breakpoint of the CDF below
\* 1 (0 included) and the middle of every interval of the CDF.
RValues(cdf) ==
  LET m == VecLen(cdf)
      den == cdf[0][2]
  IN IF den = 0 THEN { Frac(0, 1) }
     ELSE { Frac(2 * cdf[j][1], 2 * den) : j \in { k \in 0..(m - 1) : cdf[k][1] < den } }
          \cup { Frac(cdf[j - 1][1] + cdf[j][1], 2 * den) : j \in 1..(m - 1) }

\* The random numbers one pass of generate_transfers can consume: r, then,
\* where a pair is drawn, any donor position of positive weight and any
\* rand_idx in 0..(n - 1).
DrawInputs(tb) ==
  UNION { LET c == choose_from_cdf(tb.cdf, tb.depths, r) IN
          IF c.result = "ok" /\ tb.weighted_indices[c.index].some
          THEN { [r |-> r, donor_idx |-> u, rand_idx |-> v] :
                   u \in { k \in DOMAIN tb.contemporaneity[c.index] :
                             tb.weighted_indices[c.index].weights[k] > 0 },
                   v \in 0..(VecLen(tb.contemporaneity[c.index]) - 2) }
          ELSE { [r |-> r, donor_idx |-> 0, rand_idx |-> 0] } :
          r \in RValues(tb.cdf) }

\* main, lines 280-287: the parsed tree with zero root length and assigned
\* depths, flattened.
GeneInit ==
  /\ \E T \in FreshTrees :
       \E L \in [NodesOf(T) -> Lengths \cup {0}] :
         /\ \A i \in NodesOf(T) : (L[i] = 0) = (i = T.root)
         /\ left = T.left
         /\ right = T.right
         /\ parent = T.parent
         /\ root = T.root
         /\ depth = assign_depths(T, L, T.root, 0)
         /\ length = L
         /\ transfer_rates \in RateTables(T)
  /\ pre = Tree
  /\ start = Tree
  /\ op = Call("init", None, None, 0, "done")
  /\ removed = {}
  /\ nsprs = 0
  /\ tables = NoTables
  /\ gene = NoGene
  /\ pc = "main"

\* main, lines 288-328: subdivision, intervals, contemporaneity, CDF and the
\* per-interval donor weights.
BuildTables ==
  /\ pc = "main"
  /\ tables' = build_tables(Tree, length, transfer_rates)
  /\ pc' = "genes"
  /\ UNCHANGED <<left, right, parent, depth, root, op, pre, start, removed, nsprs,
                 length, transfer_rates, gene>>

\* The state left by a run R of one_gene_sim_to_string.
InstallGene(R, n_transfers, stream) ==
  /\ Install(R.tree)
  /\ op' = Call("one_gene_sim_to_string", n_transfers, None, 0, R.result)
  /\ gene' = [result |-> R.result, n_transfers |-> n_transfers, stream |-> stream,
              generated |-> R.generated, transfers |-> R.transfers,
              csv |-> R.csv, applied |-> R.applied,
              gene_tree |-> IF R.result = "done" THEN reconstructed_tree(R.tree, length)
                            ELSE [result |-> "none"]]
  /\ pc' = IF R.result = "panic" THEN "panic" ELSE "done"

\* one_gene_sim_to_string for a gene with n_transfers transfers, the RNG
\* giving the numbers of stream.
OneGeneSim(n_transfers, stream) ==
  /\ pc = "genes"
  /\ InstallGene(one_gene_sim_to_string(Tree, n_transfers, tables, stream),
                 n_transfers, stream)
  /\ pre' = Tree
  /\ UNCHANGED <<start, removed, nsprs, length, transfer_rates, tables>>

\* One pass of the loop of generate_transfers on its own, the RNG giving the
\* numbers of d.
DrawTransfer(d) ==
  /\ pc = "genes"
  /\ gene' = [result |-> "pass", draw |-> d, pass |-> draw_transfer(tables, d)]
  /\ pc' = "done"
  /\ UNCHANGED <<left, right, parent, depth, root, op, pre, start, removed, nsprs,
                 length, transfer_rates, tables>>

SamplerNext ==
  \/ BuildTables
  \/ /\ pc = "genes"
     /\ \E d \in DrawInputs(tables) : DrawTransfer(d)

\* The sampler alone: the tables of every input tree and every single draw.
SamplerSpec == GeneInit /\ [][SamplerNext]_vars

GeneNext ==
  \/ BuildTables
  \/ /\ pc = "genes"
     /\ \E n_transfers \in 0..MaxTransfers :
          \E stream \in [1..n_transfers -> DrawInputs(tables)] :
            OneGeneSim(n_transfers, stream)

\* The pipeline run: the tables of every input tree, then one gene.
GeneSpec == GeneInit /\ [][GeneNext]_vars

\* ------------------------------------------------- queries after surgery
\* find_deepest_nodes(&flat_tree, nb_leaves) on the tree as it stands.
FindDeepestNodes(nb_leaves) ==
  /\ pc = "surgery"
  /\ Running
  /\ LET R == find_deepest_nodes(Tree, nb_leaves) IN
       op' = Call("find_deepest_nodes", nb_leaves, R.indices, 0, R.result)
  /\ pre' = Tree
  /\ pc' = "query"
  /\ UNCHANGED <<left, right, parent, depth, root, start, removed, nsprs,
                 length, transfer_rates, tables, gene>>

\* The FlatTree of the program with all its fields.
FullTree == full_tree(Tree, length)

\* The tree given by to_flat_tree to the outcome N of to_node.
Reflatten(N) ==
  IF N.result = "done" THEN Node_to_flat_tree(N.node) ELSE None

\* flat_tree.to_node(), then to_flat_tree() on the recursive tree returned.
ToNode ==
  /\ pc = "surgery"
  /\ Running
  /\ op' = Call("to_node", FullTree, Reflatten(to_node(FullTree)), 0,
                to_node(FullTree).result)
  /\ pre' = Tree
  /\ pc' = "query"
  /\ UNCHANGED <<left, right, parent, depth, root, start, removed, nsprs,
                 length, transfer_rates, tables, gene>>

QueryNext ==
  \/ /\ pc = "surgery"
     /\ Next
  \/ \E nb_leaves \in 0..(MaxLeaves + 1) : FindDeepestNodes(nb_leaves)
  \/ ToNode

\* Surgery as in Spec, then one query on the tree it left.
QuerySpec == Init /\ [][QueryNext]_vars

\* ------------------------------------------ the functions on their own
\* Non-empty strictly increasing subdivisions, as make_subdivision returns
\* them (sorted, deduplicated).
Subdivisions == { VecOfSeq(SortedSeq(S)) : S \in (SUBSET (0..MaxDepth)) \ {{}} }

\* The values looked up: every grid point, every value between two grid
\* points, and one value on either side of the grid.
Values == (0 - 1)..(MaxDepth + 1)

\* The tree of a single node, for the runs that work on no tree.
SingleNode == CHOOSE T \in to_flat_tree(1) : TRUE

\* A subdivision is given to find_closest_index.
ClosestInit ==
  /\ Install0(SingleNode)
  /\ \E depths \in Subdivisions : tables = [set |-> FALSE, depths |-> depths]
  /\ gene = NoGene
  /\ pc = "find_closest_index"

\* find_closest_index(depths, value)
FindClosestIndex(value) ==
  /\ pc = "find_closest_index"
  /\ op' = Call("find_closest_index", tables.depths, value, 0,
                find_closest_index(tables.depths, value))
  /\ pc' = "done"
  /\ UNCHANGED <<left, right, parent, depth, root, pre, start, removed, nsprs,
                 length, transfer_rates, tables, gene>>

\* Branch lengths of the recursive trees given to to_flat_tree.
NodeLengths == {1, 2}

\* The recursive trees of n nodes, as options: each child present or not,
\* names numbering the nodes in post-order from first, depths as assign_depths
\* gives them below a node of depth parent_depth.
RECURSIVE Nodes(_, _, _)
Nodes(n, first, parent_depth) ==
  IF n = 0 THEN { << >> }
  ELSE UNION { UNION { { << [name |-> first + n - 1, left_child |-> l, right_child |-> r,
                            depth |-> parent_depth + x, length |-> x] >> :
                           l \in Nodes(k, first, parent_depth + x),
                           r \in Nodes(n - 1 - k, first + k, parent_depth + x) } :
                       k \in 0..(n - 1) } :
               x \in NodeLengths }

\* A recursive tree is given to to_flat_tree.
FlattenInit ==
  /\ Install0(SingleNode)
  /\ tables = NoTables
  /\ \E n \in 1..MaxFlat : \E opt \in Nodes(n, 1, 0) : gene = [result |-> "none", node |-> opt[1]]
  /\ pc = "to_flat_tree"

\* node.to_flat_tree(), then to_node() on the flat tree returned.
ToFlatTree ==
  /\ pc = "to_flat_tree"
  /\ op' = Call("to_flat_tree", gene.node, Node_to_flat_tree(gene.node), 0,
                to_node(Node_to_flat_tree(gene.node)))
  /\ pc' = "done"
  /\ UNCHANGED <<left, right, parent, depth, root, pre, start, removed, nsprs,
                 length, transfer_rates, tables, gene>>

\* Flat trees as any caller can build them (the fields are public): n slots,
\* every parent field none or any index, any slot as the root. is_ancestor
\* reads nothing else.
ArbitraryParents ==
  UNION { { [left |-> [i \in 0..(n - 1) |-> None], right |-> [i \in 0..(n - 1) |-> None],
             parent |-> p, depth |-> [i \in 0..(n - 1) |-> 0], root |-> r] :
              p \in [0..(n - 1) -> (0..(n - 1)) \cup {None}], r \in 0..(n - 1) } :
          n \in 1..MaxSlots }

\* A flat tree is given to is_ancestor.
AncestorInit ==
  /\ \E T \in ArbitraryParents : Install0(T)
  /\ tables = NoTables
  /\ gene = NoGene
  /\ pc = "is_ancestor"

\* flat_tree.is_ancestor(potential_ancestor_idx, node_idx)
IsAncestor(potential_ancestor_idx, node_idx) ==
  /\ pc = "is_ancestor"
  /\ op' = Call("is_ancestor", potential_ancestor_idx, node_idx, 0,
                is_ancestor(Tree, potential_ancestor_idx, node_idx))
  /\ pc' = "done"
  /\ UNCHANGED <<left, right, parent, depth, root, pre, start, removed, nsprs,
                 length, transfer_rates, tables, gene>>

FnInit ==
  \/ ClosestInit
  \/ FlattenInit
  \/ AncestorInit

FnNext ==
  \/ \E value \in Values : FindClosestIndex(value)
  \/ ToFlatTree
  \/ \E potential_ancestor_idx \in Args, node_idx \in Args :
       IsAncestor(potential_ancestor_idx, node_idx)

\* Each function applied once to one input.
FnSpec == FnInit /\ [][FnNext]_vars

TypeOK ==
  /\ root \in NodesOf(Tree)
  /\ \A i \in NodesOf(Tree) :
       /\ left[i] \in NodesOf(Tree) \cup {None}
       /\ right[i] \in NodesOf(Tree) \cup {None}
       /\ parent[i] \in NodesOf(Tree) \cup {None}

\* =================================================== tree predicates (spec.md 3)
\* Every node has 0 or 2 children.
Binary(T) == \A i \in NodesOf(T) : (T.left[i] = None) = (T.right[i] = None)

\* parent(c) = p iff c is the left or the right child of p.
Reciprocity(T) ==
  \A c \in NodesOf(T), p \in NodesOf(T) :
    (T.parent[c] = p) = (T.left[p] = c \/ T.right[p] = c)

\* Every child/parent reference is none or an index of the node vector.
IndexValid(T) ==
  /\ T.root \in NodesOf(T)
  /\ \A i \in NodesOf(T) :
       /\ T.left[i] \in NodesOf(T) \cup {None}
       /\ T.right[i] \in NodesOf(T) \cup {None}
       /\ T.parent[i] \in NodesOf(T) \cup {None}

\* The nodes met when following parent from n for at most k steps (n excluded).
RECURSIVE ParentChain(_, _, _)
ParentChain(T, n, k) ==
  IF k = 0 \/ T.parent[n] = None THEN {}
  ELSE {T.parent[n]} \cup ParentChain(T, T.parent[n], k - 1)

\* a is a proper ancestor of n.
Ancestor(T, a, n) == a \in ParentChain(T, n, len(T))

\* Following parent from any node reaches the root; the root has no parent.
Acyclic(T) ==
  /\ T.parent[T.root] = None
  /\ \A i \in NodesOf(T) : i = T.root \/ Ancestor(T, T.root, i)

\* A valid binary rooted flat tree in which every slot is a node of the tree.
ValidTree(T) ==
  /\ IndexValid(T)
  /\ Binary(T)
  /\ \A i \in NodesOf(T) : T.left[i] = None \/ T.left[i] # T.right[i]
  /\ Reciprocity(T)
  /\ Acyclic(T)
  /\ \A i \in NodesOf(T) : (T.parent[i] = None) = (i = T.root)

Children(T, p) == {T.left[p], T.right[p]} \ {None}

\* The sibling of c under its parent, in T.
Sibling(T, c) ==
  IF T.left[T.parent[c]] = c THEN T.right[T.parent[c]] ELSE T.left[T.parent[c]]

\* ------------------------------------------------------- dated SPR claims
\* The last call was spr(donor, recipient, time) on a valid tree with both
\* indices in range, neither the root, donor # recipient and the donor not an
\* ancestor of the recipient.
SprCall ==
  /\ op.name = "spr"
  /\ ValidTree(pre)
  /\ op.a \in NodesOf(pre) /\ op.b \in NodesOf(pre)
  /\ op.a # pre.root /\ op.b # pre.root
  /\ op.a # op.b
  /\ ~Ancestor(pre, op.a, op.b)

\* C1 (as claimed): after a dated spr with parent(donor) # parent(recipient),
\* every node has 0 or 2 children, parent(c) = p iff c is a child of p, and the
\* children of the recipient's former parent are exactly donor and recipient.
C1_SprKeepsReciprocity ==
  (SprCall /\ pre.parent[op.a] # pre.parent[op.b])
    => /\ Binary(Tree)
       /\ Reciprocity(Tree)
       /\ Children(Tree, pre.parent[op.b]) = {op.a, op.b}

\* C2 (as claimed): after a dated spr whose donor is not an ancestor of the
\* recipient, following parent from any node reaches the root and the root has
\* no parent.
C2_SprAcyclicAsClaimed == SprCall => Acyclic(Tree)

\* C2 (amended): the same, when in addition the recipient is not an ancestor
\* of the donor.
C2_SprAcyclic ==
  (SprCall /\ ~Ancestor(pre, op.b, op.a)) => Acyclic(Tree)

\* A move across the tree happened: parents differ, neither is above the other.
C2_Witness ==
  /\ SprCall /\ ~Ancestor(pre, op.b, op.a)
  /\ op.result = "done"
  /\ pre.parent[op.a] # pre.parent[op.b]
  /\ pre.parent[pre.parent[op.b]] # None
  /\ root = pre.root

\* C3: after a dated spr(donor, recipient, t) whose preconditions hold (donor
\* not an ancestor of recipient included), depth(parent(donor)) = t; and when
\* the two parents differed, the donor's new parent is the recipient's former
\* parent pr, and the recipient's former sibling is in the slot of the former
\* grandparent that held pr, or is the root without parent when pr was the root.
C3_SprDepthAndRelink ==
  SprCall =>
    LET pr == pre.parent[op.b]
        sr == Sibling(pre, op.b)
        ppr == pre.parent[pr]
    IN /\ op.result = "done"
       /\ parent[op.a] # None
       /\ depth[parent[op.a]] = op.time
       /\ pre.parent[op.a] # pr =>
            /\ parent[op.a] = pr
            /\ IF ppr # None
               THEN /\ (pre.left[ppr] = pr => left[ppr] = sr)
                    /\ (pre.right[ppr] = pr => right[ppr] = sr)
                    /\ parent[sr] = ppr
               ELSE root = sr /\ parent[sr] = None

\* A dated move whose time differs from pr's former depth, pr below the root.
C3_Witness ==
  /\ SprCall
  /\ op.result = "done"
  /\ pre.parent[op.a] # pre.parent[op.b]
  /\ pre.parent[pre.parent[op.b]] # None
  /\ pre.depth[pre.parent[op.b]] # op.time
  /\ parent[op.a] = pre.parent[op.b]

\* ------------------------------------------------ topology-only SPR claims
\* The last call was spr_topology(n, r) on a valid tree.
TopoCall == op.name = "spr_topology" /\ ValidTree(pre)

\* x and every descendant of x, in T.
SubtreeNodes(T, x) == {x} \cup { y \in NodesOf(T) : Ancestor(T, x, y) }

\* The subtree below x is what it was before the call.
SubtreeUnchanged(x) ==
  \A y \in SubtreeNodes(pre, x) :
    /\ left[y] = pre.left[y]
    /\ right[y] = pre.right[y]
    /\ (y # x => parent[y] = pre.parent[y])

\* C4: whenever spr_topology returns Ok on a valid tree, the tree is valid
\* again: 0 or 2 children, reciprocity, indices in range, acyclic, and root is
\* the one node without parent.
C4_SprTopologyKeepsValid == (TopoCall /\ op.result = "Ok") => ValidTree(Tree)

\* A successful move that changed the root.
C4_Witness == TopoCall /\ op.result = "Ok" /\ root # pre.root /\ ValidTree(Tree)

\* What C5 says of P, of r's former position and of S's new position.
C5_Regrafted(n, r) ==
  LET P == pre.parent[n]
      S == Sibling(pre, n)
      G == pre.parent[P]
      RP == pre.parent[r]
  IN /\ Children(Tree, P) = {n, r}
     /\ parent[n] = P /\ parent[r] = P
     /\ IF RP # None
        THEN /\ parent[P] = RP
             /\ (pre.left[RP] = r => left[RP] = P)
             /\ (pre.right[RP] = r => right[RP] = P)
        ELSE root = P /\ parent[P] = None
     /\ IF G # None
        THEN /\ parent[S] = G
             /\ (pre.left[G] = P => left[G] = S)
             /\ (pre.right[G] = P => right[G] = S)
        ELSE root = S /\ parent[S] = None

\* C5 (as claimed): a successful non-trivial spr_topology(n, r) leaves P with
\* children n and r in r's former position and S in P's former position, and
\* the subtrees below n, r and S unchanged; with r the sibling of n nothing
\* changes.
C5_RegraftAsClaimed ==
  (TopoCall /\ op.result = "Ok") =>
    IF op.b = Sibling(pre, op.a) THEN Tree = pre
    ELSE /\ C5_Regrafted(op.a, op.b)
         /\ SubtreeUnchanged(op.a)
         /\ SubtreeUnchanged(op.b)
         /\ SubtreeUnchanged(Sibling(pre, op.a))

\* C5 (amended): the same, the subtree below r being unchanged when r is not
\* an ancestor of n, and the subtree below S when r is not a descendant of S.
C5_Regraft ==
  (TopoCall /\ op.result = "Ok") =>
    IF op.b = Sibling(pre, op.a) THEN Tree = pre
    ELSE /\ C5_Regrafted(op.a, op.b)
         /\ SubtreeUnchanged(op.a)
         /\ (~Ancestor(pre, op.b, op.a) => SubtreeUnchanged(op.b))
         /\ (~Ancestor(pre, Sibling(pre, op.a), op.b)
               => SubtreeUnchanged(Sibling(pre, op.a)))

\* A non-trivial move between disjoint subtrees, below the root on both sides.
C5_Witness ==
  /\ TopoCall /\ op.result = "Ok"
  /\ op.b # Sibling(pre, op.a)
  /\ pre.parent[pre.parent[op.a]] # None
  /\ pre.parent[op.b] # None
  /\ ~Ancestor(pre, op.b, op.a)
  /\ ~Ancestor(pre, Sibling(pre, op.a), op.b)
  /\ parent[op.b] = pre.parent[op.a]

\* ------------------------------------------------------ leaf-pruning claims
IsLeaf(T, i) == T.left[i] = None /\ T.right[i] = None

\* The nodes reached from x by child pointers in at most k steps.
RECURSIVE Reach(_, _, _)
Reach(T, x, k) ==
  IF x = None \/ k = 0 THEN {}
  ELSE {x} \cup Reach(T, T.left[x], k - 1) \cup Reach(T, T.right[x], k - 1)

\* The nodes of the tree hanging from the root; the other slots are dead.
LiveNodes(T) == Reach(T, T.root, len(T))

\* The slots reachable from the root form a valid binary tree.
LiveValid(T) ==
  /\ IndexValid(T)
  /\ T.parent[T.root] = None
  /\ \A p \in LiveNodes(T) :
       /\ (T.left[p] = None) = (T.right[p] = None)
       /\ T.left[p] # None =>
            /\ T.left[p] # T.right[p]
            /\ T.parent[T.left[p]] = p
            /\ T.parent[T.right[p]] = p
  /\ \A i \in LiveNodes(T) : i = T.root \/ Ancestor(T, T.root, i)

\* The last call was remove_node(i) on a non-root leaf i of a valid tree.
RemoveLeafCall ==
  /\ op.name = "remove_node"
  /\ LiveValid(pre)
  /\ op.a \in LiveNodes(pre)
  /\ IsLeaf(pre, op.a)
  /\ op.a # pre.root

\* C6: remove_node(i) on a non-root leaf i with parent p, sibling s and
\* grandparent g: the slot of g that held p holds s and parent(s) = g, or, p
\* being the root, root = s and parent(s) = none; parent(i) = none, and neither
\* i nor p is reachable from the root by child pointers.
C6_RemoveLeafSplices ==
  RemoveLeafCall =>
    LET i == op.a
        p == pre.parent[i]
        s == Sibling(pre, i)
        g == pre.parent[p]
    IN /\ op.result = "done"
       /\ IF g # None
          THEN /\ (pre.left[g] = p => left[g] = s /\ right[g] = pre.right[g])
               /\ (pre.right[g] = p => right[g] = s /\ left[g] = pre.left[g])
               /\ parent[s] = g
               /\ root = pre.root
          ELSE root = s /\ parent[s] = None
       /\ parent[i] = None
       /\ i \notin LiveNodes(Tree)
       /\ p \notin LiveNodes(Tree)

\* A leaf was pruned from below a grandparent, after an earlier pruning.
C6_Witness ==
  /\ RemoveLeafCall
  /\ op.result = "done"
  /\ pre.parent[pre.parent[op.a]] # None
  /\ pre # start
  /\ parent[Sibling(pre, op.a)] = pre.parent[pre.parent[op.a]]

\* The leaves of the input tree, those pruned so far being in removed.
StartLeaves == { i \in NodesOf(start) : IsLeaf(start, i) }
KeptLeaves == StartLeaves \ removed

\* x has a kept leaf in its subtree of the input tree.
HasKept(x) == SubtreeNodes(start, x) \cap KeptLeaves # {}

\* The node that stands for the subtree of x once the pruned leaves and their
\* parents are spliced out: the topmost node below x with kept leaves on both
\* sides, or the one kept leaf.
RECURSIVE Top(_)
Top(x) ==
  IF IsLeaf(start, x) THEN x
  ELSE IF HasKept(start.left[x]) /\ HasKept(start.right[x]) THEN x
  ELSE IF HasKept(start.left[x]) THEN Top(start.left[x])
  ELSE Top(start.right[x])

Survivors ==
  { x \in NodesOf(start) :
      IF IsLeaf(start, x) THEN x \in KeptLeaves
      ELSE HasKept(start.left[x]) /\ HasKept(start.right[x]) }

\* Only leaves of the input tree were pruned, each call succeeded, and a leaf
\* is kept.
OnlyLeavesPruned ==
  /\ nsprs = 0
  /\ op.result = "done"
  /\ removed \subseteq StartLeaves
  /\ KeptLeaves # {}

\* C7: pruning a set L of leaves, a leaf being kept, meets the precondition at
\* every step in any order (each leaf still to prune is a non-root leaf of the
\* tree) and gives, whatever the order, the input tree restricted to the kept
\* leaves: the same root, the same reachable tree, every depth unchanged.
C7_RemovalOrderIndependent ==
  OnlyLeavesPruned =>
    /\ \A i \in KeptLeaves :
         Cardinality(KeptLeaves) >= 2 =>
           /\ IsLeaf(Tree, i) /\ parent[i] # None /\ i # root
           /\ remove_node(Tree, i).result = "done"
    /\ root = Top(start.root)
    /\ parent[root] = None
    /\ LiveNodes(Tree) = Survivors
    /\ \A x \in Survivors :
         IF IsLeaf(start, x) THEN IsLeaf(Tree, x)
         ELSE /\ left[x] = Top(start.left[x])
              /\ right[x] = Top(start.right[x])
              /\ parent[left[x]] = x
              /\ parent[right[x]] = x
    /\ depth = start.depth

\* Two leaves pruned out of at least four, the root having changed.
C7_Witness ==
  /\ OnlyLeavesPruned
  /\ Cardinality(removed) >= 2
  /\ Cardinality(StartLeaves) >= 4
  /\ root # start.root
  /\ op.name = "remove_node"

\* ------------------------------------------ dated versus topology-only SPR
\* The last call was a dated spr that completed on a valid tree.
DatedDone ==
  /\ op.name = "spr"
  /\ ValidTree(pre)
  /\ op.result = "done"

C10_RootRecipientRejectedAsClaimed ==
  (TopoCall /\ op.b = pre.root) => op.result \in SprErrors

\* C10 (amended): with recipient = root, spr_topology fails only when the
\* donor is out of bounds, is the root itself or is a child of the root;
\* otherwise it returns Ok and performs the move: the donor's parent P becomes
\* the root, with the donor and the former root as its children.
C10_RootRecipient ==
  (TopoCall /\ op.b = pre.root) =>
    IF op.a \notin NodesOf(pre) \/ op.a = pre.root \/ pre.parent[op.a] = pre.root
    THEN op.result \in SprErrors /\ Tree = pre
    ELSE /\ op.result = "Ok"
         /\ root = pre.parent[op.a]
         /\ parent[root] = None
         /\ Children(Tree, root) = {op.a, pre.root}
         /\ parent[pre.root] = root

\* A move onto the root was performed.
C10_Witness ==
  /\ TopoCall /\ op.b = pre.root
  /\ op.result = "Ok"
  /\ root = pre.parent[op.a]
  /\ root # pre.root

\* ------------------------------------------ dated spr outside its precondition
\* C11: a dated spr whose donor is the root, whose recipient is the root or
\* whose donor is its recipient ends in a failure and modifies no pointer, no
\* depth and not the root.
C11_SprPreconditionFailures ==
  (/\ op.name = "spr"
   /\ ValidTree(pre)
   /\ op.a \in NodesOf(pre) /\ op.b \in NodesOf(pre)
   /\ (op.a = pre.root \/ op.b = pre.root \/ op.a = op.b))
    => op.result # "done" /\ Tree = pre

\* ------------------------------------------------ dead slots after pruning
\* C12: after remove_node(i) on a non-root leaf i with parent p the node
\* vector has the same indices, parent(i) is none, and the parent and both
\* child references of p are none.
C12_DeadSlotsCleared ==
  RemoveLeafCall =>
    LET i == op.a
        p == pre.parent[i]
    IN /\ op.result = "done"
       /\ NodesOf(Tree) = NodesOf(pre)
       /\ parent[i] = None
       /\ parent[p] = None
       /\ left[p] = None
       /\ right[p] = None

\* ===================================================== the sampler's tables
\* The members of a vector of node indices.
Members(v) == { v[k] : k \in DOMAIN v }

\* The tree is time-coordinated: root depth 0 and root length 0, and
\* depth(c) = depth(parent(c)) + length(c) below the root.
TimeCoordinated ==
  /\ depth[root] = 0 /\ length[root] = 0
  /\ \A c \in NodesOf(Tree) : c # root => depth[c] = depth[parent[c]] + length[c]

\* C20: on a time-coordinated tree with subdivision d, find_contemporaneity
\* puts node v in entry j exactly when j >= 1 and
\* depth(v) - length(v) <= d[j-1] < depth(v); entry 0 is empty and the root
\* is in no entry.
C20_Contemporaneity ==
  (tables.set /\ TimeCoordinated) =>
    LET d == tables.depths
        m == VecLen(d)
    IN /\ DOMAIN tables.contemporaneity = 0..(m - 1)
       /\ \A j \in 0..(m - 1) : \A v \in NodesOf(Tree) :
            (v \in Members(tables.contemporaneity[j]))
              = (j >= 1 /\ depth[v] - length[v] <= d[j - 1] /\ d[j - 1] < depth[v])
       /\ Members(tables.contemporaneity[0]) = {}
       /\ \A j \in 0..(m - 1) : root \notin Members(tables.contemporaneity[j])

\* A branch that spans two intervals, and an interval with three branches.
C20_Witness ==
  /\ tables.set /\ TimeCoordinated
  /\ \E v \in NodesOf(Tree) : \E j \in DOMAIN tables.depths :
       /\ j >= 2
       /\ v \in Members(tables.contemporaneity[j])
       /\ v \in Members(tables.contemporaneity[j - 1])
  /\ \E j \in DOMAIN tables.depths : VecLen(tables.contemporaneity[j]) >= 3

\* ------------------------------------------------------------ the CDF
RECURSIVE SetSum(_, _)
SetSum(f, S) ==
  IF S = {} THEN 0
  ELSE LET x == CHOOSE y \in S : TRUE IN f[x] + SetSum(f, S \ {x})

\* intervals[j] * I[j], I[j] being the sum of the transfer rates of the nodes
\* of contemporaneity[j].
IntervalWeight(j) ==
  tables.intervals[j] * SetSum(transfer_rates, Members(tables.contemporaneity[j]))

TotalWeight == SetSum([j \in DOMAIN tables.intervals |-> IntervalWeight(j)],
                      DOMAIN tables.intervals)

\* C18: where some interval has positive weight, the CDF of make_cdf is
\* non-decreasing, C[0] = 0, C[m-1] = 1, and C[j] - C[j-1] is
\* intervals[j] * I[j] divided by the total weight, for every j >= 1.
C18_CdfShape ==
  (tables.set /\ \E j \in DOMAIN tables.intervals : IntervalWeight(j) > 0) =>
    LET C == tables.cdf
        m == VecLen(C)
    IN /\ m = VecLen(tables.depths)
       /\ FracEq(C[0], Frac(0, 1))
       /\ FracEq(C[m - 1], Frac(1, 1))
       /\ \A j \in 1..(m - 1) :
            /\ FracLeq(C[j - 1], C[j])
            /\ FracEq(FracSub(C[j], C[j - 1]), Frac(IntervalWeight(j), TotalWeight))

\* A CDF over at least three intervals of different weights, with rates that
\* are not all equal.
C18_Witness ==
  /\ tables.set
  /\ VecLen(tables.cdf) >= 4
  /\ \E i \in NodesOf(Tree) : transfer_rates[i] # 1
  /\ \E j \in 2..(VecLen(tables.cdf) - 1) :
       /\ IntervalWeight(j) # IntervalWeight(j - 1)
       /\ FracLess(tables.cdf[j - 1], tables.cdf[j])
       /\ FracLess(tables.cdf[j], Frac(1, 1))

\* ------------------------------------------------------------ one draw
\* One pass of generate_transfers was made and choose_from_cdf returned.
PassChosen ==
  /\ gene.result = "pass"
  /\ choose_from_cdf(tables.cdf, tables.depths, gene.draw.r).result = "ok"

\* C16: in an interval j with at least two contemporaneous edges,
\* random_pair_with_weights returns a donor and a recipient that differ and are
\* both members of contemporaneity[j], and every member other than the donor
\* is the recipient for exactly one value of the uniform draw in 0..n-2.
C16_PairIsValid ==
  (PassChosen /\ VecLen(tables.contemporaneity[gene.pass.index]) >= 2) =>
    LET species == tables.contemporaneity[gene.pass.index]
        n == VecLen(species)
    IN /\ gene.pass.result = "ok"
       /\ gene.pass.transfer[1] # gene.pass.transfer[2]
       /\ gene.pass.transfer[1] \in Members(species)
       /\ gene.pass.transfer[2] \in Members(species)
       /\ gene.pass.transfer[1] = species[gene.draw.donor_idx]
       /\ \A x \in Members(species) \ {gene.pass.transfer[1]} :
            Cardinality({ v \in 0..(n - 2) :
              random_pair_with_weights(species, gene.draw.donor_idx, v).receiver = x }) = 1

\* The uniform draw fell on the donor's position, among three or more species.
C16_Witness ==
  /\ PassChosen
  /\ VecLen(tables.contemporaneity[gene.pass.index]) >= 3
  /\ gene.pass.result = "ok"
  /\ gene.draw.rand_idx = gene.draw.donor_idx
  /\ gene.pass.transfer[1] # gene.pass.transfer[2]

\* C17: for every r in [0, 1) choose_from_cdf returns an index j with
\* 1 <= j <= m-1 and C[j-1] <= r < C[j], and a time t with
\* subdivision[j-1] <= t <= subdivision[j] (CDF of a tree with branches).
C17_LowerBoundPolicy ==
  (gene.result = "pass" /\ ~IsNaN(tables.cdf[0])) =>
    LET c == choose_from_cdf(tables.cdf, tables.depths, gene.draw.r)
        j == c.index
    IN /\ c.result = "ok"
       /\ 1 <= j /\ j <= VecLen(tables.cdf) - 1
       /\ FracLeq(tables.cdf[j - 1], gene.draw.r)
       /\ FracLess(gene.draw.r, tables.cdf[j])
       /\ tables.depths[j - 1] <= c.depth /\ c.depth <= tables.depths[j]

\* ------------------------------------------------------ one gene simulation
\* one_gene_sim_to_string has run.
GeneRan == gene.result \in {"done", "panic"}

\* C19: every interval the CDF can select (C[j] > C[j-1]) has at least two
\* contemporaneous edges, and every call of generate_transfers for N transfers
\* completes and returns exactly N transfers.
C19_DrawsComplete ==
  /\ tables.set =>
       \A j \in 1..(VecLen(tables.cdf) - 1) :
         FracLess(tables.cdf[j - 1], tables.cdf[j])
           => VecLen(tables.contemporaneity[j]) >= 2
  /\ GeneRan =>
       /\ gene.generated = "ok"
       /\ Len(gene.transfers) = gene.n_transfers

\* The transfers the passes of the stream draw, in the order drawn.
Drawn == [k \in 1..gene.n_transfers |-> draw_transfer(tables, gene.stream[k]).transfer]

\* q is a permutation of p.
IsPermutation(p, q) ==
  /\ Len(p) = Len(q)
  /\ \A x \in { p[k] : k \in 1..Len(p) } :
       Cardinality({ k \in 1..Len(p) : p[k] = x })
         = Cardinality({ k \in 1..Len(q) : q[k] = x })

\* C14: the transfers returned by generate_transfers are the drawn ones in
\* non-decreasing order of time, the CSV rows are written in that order, and
\* the dated spr calls are made in that order, one per transfer.
C14_TransfersInTimeOrder ==
  (GeneRan /\ gene.generated = "ok") =>
    /\ IsPermutation(Drawn, gene.transfers)
    /\ \A k \in 1..(Len(gene.transfers) - 1) :
         gene.transfers[k][3] <= gene.transfers[k + 1][3]
    /\ gene.csv = gene.transfers
    /\ Len(gene.applied) <= Len(gene.transfers)
    /\ gene.result = "done" => Len(gene.applied) = Len(gene.transfers)
    /\ \A k \in 1..Len(gene.applied) :
         /\ gene.applied[k].donor = gene.transfers[k][1]
         /\ gene.applied[k].recipient = gene.transfers[k][2]
         /\ gene.applied[k].time = gene.transfers[k][3]

\* The later of two transfers was drawn first, and both were applied.
C14_Witness ==
  /\ GeneRan /\ gene.generated = "ok"
  /\ gene.n_transfers = 2
  /\ Drawn[1][3] > Drawn[2][3]
  /\ Len(gene.applied) = 2
  /\ gene.applied[1].time < gene.applied[2].time

\* C13: no transfer of the pipeline is applied with a donor that is an
\* ancestor of its recipient in the tree it is applied to.
C13_NoAncestorDonor ==
  GeneRan =>
    \A k \in 1..Len(gene.applied) :
      ~Ancestor(gene.applied[k].pre, gene.applied[k].donor, gene.applied[k].recipient)

\* A second transfer was applied to a tree the first one had rearranged, its
\* donor being an internal node.
C13_Witness ==
  /\ gene.result = "done"
  /\ Len(gene.applied) = 2
  /\ gene.applied[2].pre.parent # start.parent
  /\ gene.applied[2].pre.left[gene.applied[2].donor] # None
  /\ ~Ancestor(gene.applied[2].pre, gene.applied[2].donor, gene.applied[2].recipient)

\* ------------------------------------------------------ find_closest_index
\* find_closest_index has been applied to op.a and op.b.
ClosestCall == op.name = "find_closest_index"

\* C21: on a non-empty strictly increasing subdivision, find_closest_index
\* returns the index of v when v is a grid point, and otherwise an index whose
\* grid point is nearest to v, the lower of the two when both neighbours are
\* equally near.
C21_ClosestIndex ==
  ClosestCall =>
    LET depths == op.a
        v == op.b
        idx == op.result
    IN /\ idx \in DOMAIN depths
       /\ (\E i \in DOMAIN depths : depths[i] = v) => depths[idx] = v
       /\ \A i \in DOMAIN depths : Abs(depths[idx] - v) <= Abs(depths[i] - v)
       /\ \A i \in DOMAIN depths :
            Abs(depths[i] - v) = Abs(depths[idx] - v) => idx <= i

\* ------------------------------------------------------ find_deepest_nodes
\* find_deepest_nodes(K) has returned op.b on a freshly flattened tree.
DeepestOnFresh ==
  /\ op.name = "find_deepest_nodes"
  /\ op.result = "done"
  /\ removed = {}
  /\ nsprs = 0

Min(a, b) == IF a < b THEN a ELSE b

\* C22: on a freshly flattened tree deepest_leaves(K) returns min(K, number
\* of leaves) distinct indices of leaves, in non-increasing depth order, no
\* leaf left out being deeper than a returned one, and leaves of equal depth
\* in first-seen (pre-order) order.
C22_DeepestLeaves ==
  (op.name = "find_deepest_nodes" /\ removed = {} /\ nsprs = 0) =>
    LET K == op.a
        res == op.b
        leaves == { i \in NodesOf(Tree) : IsLeaf(Tree, i) }
        order == iter_pre_order(Tree, root, len(Tree))
        pos(i) == CHOOSE k \in 1..Len(order) : order[k] = i
    IN /\ op.result = "done"
       /\ Len(res) = Min(K, Cardinality(leaves))
       /\ \A j \in 1..Len(res) : res[j] \in leaves
       /\ \A j, k \in 1..Len(res) : j # k => res[j] # res[k]
       /\ \A j, k \in 1..Len(res) : j < k => depth[res[j]] >= depth[res[k]]
       /\ \A j \in 1..Len(res) :
            \A i \in leaves : (\A k \in 1..Len(res) : res[k] # i) => depth[i] <= depth[res[j]]
       /\ \A j, k \in 1..Len(res) :
            (j < k /\ depth[res[j]] = depth[res[k]]) => pos(res[j]) < pos(res[k])

\* Two leaves of different depths are returned, the shallower one met first
\* by the traversal, and one leaf is left out.
C22_Witness ==
  /\ DeepestOnFresh
  /\ Len(op.b) = op.a
  /\ Len(op.b) < Cardinality({ i \in NodesOf(Tree) : IsLeaf(Tree, i) })
  /\ \E j \in 1..(Len(op.b) - 1) :
       /\ depth[op.b[j]] > depth[op.b[j + 1]]
       /\ op.b[j] > op.b[j + 1]

\* C29: on every flat tree, after any sequence of remove_node and SPR calls,
\* each index returned by find_deepest_nodes is a position of the node vector
\* that holds a leaf reachable from the root.
C29_DeepestAfterSurgery ==
  (op.name = "find_deepest_nodes" /\ op.result = "done") =>
    \A j \in 1..Len(op.b) :
      /\ op.b[j] \in NodesOf(Tree)
      /\ IsLeaf(Tree, op.b[j])
      /\ op.b[j] \in LiveNodes(Tree)

\* ------------------------------------------------------------- flattening
\* to_flat_tree has been applied to the recursive tree op.a, giving op.b.
FlattenCall == op.name = "to_flat_tree"

\* C23: to_flat_tree(T) places the nodes in pre-order with the root at index
\* 0 and reciprocal parent/child indices, and to_node(to_flat_tree(T)) equals
\* T in names, child positions, depths and lengths.
C23_FlatteningLossless ==
  FlattenCall =>
    LET F == op.b
        n == len(F)
    IN /\ F.root = 0
       /\ NodesOf(F) = 0..(n - 1)
       /\ iter_pre_order(F, F.root, n) = [k \in 1..n |-> k - 1]
       /\ IndexValid(F)
       /\ Reciprocity(F)
       /\ F.parent[F.root] = None
       /\ op.result.result = "done"
       /\ op.result.node = op.a

\* A tree of MaxFlat nodes with a node that has only a right child and a node
\* with two children has been flattened.
C23_Witness ==
  /\ FlattenCall
  /\ len(op.b) = MaxFlat
  /\ \E i \in NodesOf(op.b) : op.b.left[i] = None /\ op.b.right[i] # None
  /\ \E i \in NodesOf(op.b) : op.b.left[i] # None /\ op.b.right[i] # None
  /\ \E i \in NodesOf(op.b) : op.b.name[i] # i + 1

\* to_node and then to_flat_tree have been applied to the flat tree op.a.
RoundTripCall == op.name = "to_node"

\* C24 as stated: for any flat tree F whose slots reachable from the root
\* form a valid binary tree, to_flat_tree(to_node(F)) equals F.
C24_RoundTripAsClaimed ==
  (RoundTripCall /\ LiveValid(op.a)) =>
    /\ op.result = "done"
    /\ op.b = op.a

\* The layout to_flat_tree produces: every slot is met by the pre-order
\* traversal from the root, at the rank equal to its index.
PreOrderLayout(F) == iter_pre_order(F, F.root, len(F)) = [k \in 1..len(F) |-> k - 1]

\* C24, amended: for any flat tree F whose slots reachable from the root form
\* a valid binary tree, have no dead slot among them and lie in pre-order,
\* to_flat_tree(to_node(F)) equals F: same node sequence, same root index,
\* same parent and child indices.
C24_RoundTrip ==
  (RoundTripCall /\ LiveValid(op.a) /\ PreOrderLayout(op.a)) =>
    /\ op.result = "done"
    /\ op.b = op.a

\* The round trip has been made on a valid tree of MaxNodes nodes in
\* pre-order, with an internal node as a right child.
C24_Witness ==
  /\ RoundTripCall
  /\ LiveValid(op.a) /\ PreOrderLayout(op.a)
  /\ len(op.a) = MaxNodes
  /\ \E i \in NodesOf(op.a) : op.a.right[i] # None /\ op.a.left[op.a.right[i]] # None
  /\ op.b = op.a

\* ------------------------------------------------------------ is_ancestor
\* The parent fields form a tree: only the root has no parent and every
\* parent chain reaches the root.
WellFormedParents(T) ==
  /\ Acyclic(T)
  /\ \A i \in NodesOf(T) : (T.parent[i] = None) = (i = T.root)

\* Following parent from n never ends.
OnParentCycle(T, n) == Cardinality(ParentChain(T, n, len(T) + 1)) < len(T) + 1
                        /\ \E c \in ParentChain(T, n, len(T)) : c \in ParentChain(T, c, len(T))

\* C25: is_ancestor(a, d) terminates on every flat tree; it returns false when
\* the parent chain of d holds a cycle and a is not met on it; on a
\* well-formed tree it returns true if and only if a # d and a lies on the
\* parent chain from d to the root.
C25_IsAncestorTerminates ==
  op.name = "is_ancestor" =>
    /\ op.result \in {"true", "false"}
    /\ (op.b \in NodesOf(Tree) /\ OnParentCycle(Tree, op.b)
          /\ op.a \notin ParentChain(Tree, op.b, len(Tree))) => op.result = "false"
    /\ WellFormedParents(Tree) =>
         (op.result = "true") =
           (op.a \in NodesOf(Tree) /\ op.b \in NodesOf(Tree) /\ op.a # op.b
              /\ Ancestor(Tree, op.a, op.b))

\* ------------------------------------------------------------------ frame
\* The nodes whose depth the last call changed.
DepthChanged == { i \in NodesOf(pre) : depth[i] # pre.depth[i] }

\* C26 as stated: the number of slots and the length at every index are
\* unchanged by surgery, remove_node and spr_topology leave every depth
\* unchanged, and a dated spr that returns changes the depth of exactly one
\* node, the recipient's parent.
C26_SurgeryFrameAsClaimed ==
  /\ NodesOf(Tree) = NodesOf(start)
  /\ length = [i \in NodesOf(start) |-> IF i = start.root THEN 0 ELSE 1]
  /\ op.name \in {"remove_node", "spr_topology"} => depth = pre.depth
  /\ (op.name = "spr" /\ op.result = "done") => DepthChanged = {pre.parent[op.b]}

\* C26, amended: after any sequence of remove_node, dated spr and spr_topology
\* calls the number of slots and the length stored at every index are those
\* of the flattened tree (the name of a slot is its index); remove_node and
\* spr_topology leave every depth unchanged, and a dated spr writes the depth
\* of one node only, the recipient's parent, which gets the transfer time
\* (no depth changes when that is the depth it had).
C26_SurgeryFrame ==
  /\ NodesOf(Tree) = NodesOf(start)
  /\ DOMAIN left = NodesOf(start) /\ DOMAIN right = NodesOf(start)
  /\ DOMAIN depth = NodesOf(start)
  /\ length = [i \in NodesOf(start) |-> IF i = start.root THEN 0 ELSE 1]
  /\ op.name \in {"remove_node", "spr_topology"} => depth = pre.depth
  /\ op.name = "spr" =>
       /\ \A i \in DepthChanged :
            /\ op.b \in NodesOf(pre)
            /\ i = pre.parent[op.b]
            /\ depth[i] = op.time
       /\ op.result = "done" => depth[pre.parent[op.b]] = op.time

\* A dated spr has moved a subtree of a tree with a dead slot and changed the
\* depth of the recipient's parent.
C26_Witness ==
  /\ op.name = "spr"
  /\ op.result = "done"
  /\ removed # {}
  /\ pre.parent[op.a] # pre.parent[op.b]
  /\ DepthChanged = {pre.parent[op.b]}

\* ------------------------------------------------- spr_topology on failure
\* C30: whenever spr_topology returns an Err, also on a tree with dead slots
\* left by remove_node, the root and every node's parent and child fields are
\* what they were before the call.
C30_SprTopologyAtomic ==
  (op.name = "spr_topology" /\ op.result \in SprErrors) =>
    /\ root = pre.root
    /\ parent = pre.parent
    /\ left = pre.left
    /\ right = pre.right

\* ------------------------------------------------------ nodes kept by SPR
\* The pre-order traversal of T from its root ends and meets exactly the
\* nodes of the set S, each once.
MeetsEachOnce(T, S) ==
  LET order == iter_pre_order(T, T.root, len(T)) IN
    /\ ~iter_loops(T, T.root, len(T))
    /\ { order[k] : k \in 1..Len(order) } = S
    /\ Len(order) = Cardinality(S)

\* C28: after a dated spr whose preconditions hold, the nodes reachable from
\* the root through child pointers are those reachable before, each reached
\* exactly once, so the tree rebuilt by to_node has the leaves of the input
\* tree, each once.
C28_SprKeepsNodes ==
  (SprCall /\ op.result = "done") =>
    /\ MeetsEachOnce(Tree, LiveNodes(pre))
    /\ { i \in LiveNodes(Tree) : IsLeaf(Tree, i) } = { i \in LiveNodes(pre) : IsLeaf(pre, i) }

\* ---------------------------------------------------------- branch lengths
\* The lengths stored in the recursive tree held by opt.
RECURSIVE BranchLengths(_)
BranchLengths(opt) ==
  IF opt = << >> THEN {}
  ELSE {opt[1].length} \cup BranchLengths(opt[1].left_child)
                       \cup BranchLengths(opt[1].right_child)

\* C27: for every sequence of sampler-generated transfers applied by dated
\* spr in ascending time order to a time-coordinated species tree, to_node and
\* depths_to_lengths give every node reachable from the root a length >= 0.
C27_NonNegativeLengths ==
  (GeneRan /\ gene.result = "done") =>
    /\ gene.gene_tree.result = "done"
    /\ \A x \in BranchLengths(<<gene.gene_tree.node>>) : x >= 0

====
